---- MODULE Spec2Model ----
(***************************************************************************)
(* Model of the resume-analyzer:                                           *)
(*   - compute_skill_match_score (app.py): token overlap + difflib fuzzy   *)
(*     matching with partial credit;                                       *)
(*   - extract_keywords / match_resume_to_job (match_skills.py): direct    *)
(*     set intersection of resume keywords and job skills;                 *)
(*   - the users and applications tables and their functions (db.py);      *)
(*   - send_email_with_ics and the Streamlit script of app.py: login,      *)
(*     logout and the two dashboards, one action per user interaction      *)
(*     followed by the rerun of the script.                                *)
(* A Python str is a sequence of one-character strings.  A float that the  *)
(* code computes as a quotient of integers is an exact rational            *)
(* [num, den] with den > 0.                                                *)
(***************************************************************************)
EXTENDS Integers, Sequences, FiniteSets, TLC

VARIABLES
    \* the matchers: iteration order of sets of str, the job's skills, the calls made
    hashseed, job_skills, calls,
    \* db.py: the two tables, and the last call with its arguments and its result
    users, applications, db_last,
    \* concurrent callers of register_user: each one's position and local variables
    requests,
    \* send_email_with_ics: the secrets read at import, and the last call
    smtp_secrets, mail_last,
    \* the Streamlit session: st.session_state, the widgets' state, the buttons
    \* drawn by the last run of the script, and the last interaction
    session_state, widgets, rendered, ui_last

matcher_vars == <<hashseed, job_skills, calls>>

db_vars == <<users, applications, db_last>>

mail_vars == <<smtp_secrets, mail_last>>

ui_vars == <<session_state, widgets, rendered, ui_last>>

vars == <<matcher_vars, db_vars, requests, mail_vars, ui_vars>>

\* None
None == "None"

\* the parts of the program a specification does not run stay as constructed
MatcherIdle == hashseed = 0 /\ job_skills = <<>> /\ calls = <<>>

\* no call made yet
NoCall == [op |-> None]

DbIdle == users = <<>> /\ applications = <<>> /\ db_last = NoCall

RequestsIdle == requests = <<>>

MailIdle == smtp_secrets = [EMAIL |-> None, PASSWORD |-> None] /\ mail_last = NoCall

UiIdle ==
    /\ session_state = <<>>
    /\ widgets = <<>>
    /\ rendered = {}
    /\ ui_last = NoCall

----------------------------------------------------------------------------
(* Characters and the str methods the matchers use.                        *)

LowerChars == <<"a", "b", "c", "d", "e", "f", "g", "h", "i", "j", "k", "l", "m",
                "n", "o", "p", "q", "r", "s", "t", "u", "v", "w", "x", "y", "z">>

UpperChars == <<"A", "B", "C", "D", "E", "F", "G", "H", "I", "J", "K", "L", "M",
                "N", "O", "P", "Q", "R", "S", "T", "U", "V", "W", "X", "Y", "Z">>

DigitChars == <<"0", "1", "2", "3", "4", "5", "6", "7", "8", "9">>

Range(s) == {s[i] : i \in 1..Len(s)}

IsLowerChar(c) == c \in Range(LowerChars)

IsUpperChar(c) == c \in Range(UpperChars)

IsDigitChar(c) == c \in Range(DigitChars)

IsSpaceChar(c) == c = " "

\* str.lower() on one character
lower_char(c) ==
    IF IsUpperChar(c)
    THEN LowerChars[CHOOSE i \in 1..Len(UpperChars) : UpperChars[i] = c]
    ELSE c

\* str.lower()
lower(s) == [i \in 1..Len(s) |-> lower_char(s[i])]

\* str.strip(): leading and trailing whitespace removed
RECURSIVE lstrip(_)
lstrip(s) == IF s # <<>> /\ IsSpaceChar(Head(s)) THEN lstrip(Tail(s)) ELSE s

RECURSIVE rstrip(_)
rstrip(s) ==
    IF s # <<>> /\ IsSpaceChar(s[Len(s)])
    THEN rstrip(SubSeq(s, 1, Len(s) - 1))
    ELSE s

strip(s) == rstrip(lstrip(s))

\* str.isalpha(): non-empty, letters only
isalpha(s) == s # <<>> /\ \A i \in 1..Len(s) : IsLowerChar(s[i]) \/ IsUpperChar(s[i])

\* str.isalnum(): non-empty, letters and digits only
isalnum(s) ==
    s # <<>> /\ \A i \in 1..Len(s) :
        IsLowerChar(s[i]) \/ IsUpperChar(s[i]) \/ IsDigitChar(s[i])

\* nltk word_tokenize on texts made of letters, digits, spaces, commas, "@"
\* and periods inside a word: tokens are the whitespace-separated words, and
\* every comma and every "@" is a token of its own.  FlushToken closes the
\* word collected so far.
FlushToken(cur) == IF cur = <<>> THEN <<>> ELSE <<cur>>

RECURSIVE TokenizeFrom(_, _)
TokenizeFrom(text, cur) ==
    IF text = <<>> THEN FlushToken(cur)
    ELSE LET c == Head(text) IN
         IF IsSpaceChar(c)
         THEN FlushToken(cur) \o TokenizeFrom(Tail(text), <<>>)
         ELSE IF c \in {",", "@"}
         THEN FlushToken(cur) \o <<(<<c>>)>> \o TokenizeFrom(Tail(text), <<>>)
         ELSE TokenizeFrom(Tail(text), Append(cur, c))

word_tokenize(text) == TokenizeFrom(text, <<>>)

\* The nltk English stopwords that occur in the modelled texts.
STOPWORDS == { <<"w", "i", "t", "h">>, <<"a", "n", "d">>, <<"i", "t">> }

----------------------------------------------------------------------------
(* Exact rationals for the floats the code computes.                       *)

Rat(n, d) == [num |-> n, den |-> d]

RatGeq(x, y) == x.num * y.den >= y.num * x.den

RatLess(x, y) == x.num * y.den < y.num * x.den

RatEq(x, y) == x.num * y.den = y.num * x.den

RatMax(x, y) == IF RatGeq(x, y) THEN x ELSE y

RECURSIVE Gcd(_, _)
Gcd(a, b) == IF b = 0 THEN a ELSE Gcd(b, a % b)

RatNorm(x) ==
    LET g == Gcd(x.num, x.den) IN
    IF g = 0 THEN x ELSE Rat(x.num \div g, x.den \div g)

RatAdd(x, y) == RatNorm(Rat(x.num * y.den + y.num * x.den, x.den * y.den))

----------------------------------------------------------------------------
(* difflib.SequenceMatcher(None, a, b).ratio() for sequences shorter than  *)
(* 200 elements (no junk, no "popular element" pruning).                   *)

\* length of the common run that starts at a[i] and b[j], inside a[..ahi], b[..bhi]
RECURSIVE RunLen(_, _, _, _, _, _)
RunLen(a, b, i, j, ahi, bhi) ==
    IF i > ahi \/ j > bhi THEN 0
    ELSE IF a[i] # b[j] THEN 0
    ELSE 1 + RunLen(a, b, i + 1, j + 1, ahi, bhi)

\* find_longest_match: the longest block a[i..i+size-1] = b[j..j+size-1] within
\* a[alo..ahi] and b[blo..bhi]; of the longest, the one starting earliest in a,
\* and of those the one starting earliest in b.
find_longest_match(a, b, alo, ahi, blo, bhi) ==
    LET run == [p \in (alo..ahi) \X (blo..bhi) |-> RunLen(a, b, p[1], p[2], ahi, bhi)]
        best == CHOOSE k \in {run[p] : p \in DOMAIN run} :
                    \A p \in DOMAIN run : run[p] <= k
        bi == CHOOSE i \in alo..ahi :
                  /\ \E j \in blo..bhi : run[<<i, j>>] = best
                  /\ \A i2 \in alo..(i - 1) : \A j \in blo..bhi : run[<<i2, j>>] # best
        bj == CHOOSE j \in blo..bhi :
                  /\ run[<<bi, j>>] = best
                  /\ \A j2 \in blo..(j - 1) : run[<<bi, j2>>] # best
    IN [i |-> bi, j |-> bj, size |-> best]

\* sum of the sizes of get_matching_blocks()
RECURSIVE MatchingSize(_, _, _, _, _, _)
RECURSIVE MatchingSizeAround(_, _, _, _, _, _, _)
MatchingSize(a, b, alo, ahi, blo, bhi) ==
    IF alo > ahi \/ blo > bhi THEN 0
    ELSE MatchingSizeAround(a, b, alo, ahi, blo, bhi,
                            find_longest_match(a, b, alo, ahi, blo, bhi))

\* the block m, and the blocks to its left and to its right
MatchingSizeAround(a, b, alo, ahi, blo, bhi, m) ==
    IF m.size = 0 THEN 0
    ELSE m.size
         + MatchingSize(a, b, alo, m.i - 1, blo, m.j - 1)
         + MatchingSize(a, b, m.i + m.size, ahi, m.j + m.size, bhi)

\* ratio() = 2.0 * matches / (len(a) + len(b)), 1.0 for two empty sequences
ratio(a, b) ==
    IF Len(a) + Len(b) = 0 THEN Rat(1, 1)
    ELSE Rat(2 * MatchingSize(a, b, 1, Len(a), 1, Len(b)), Len(a) + Len(b))

----------------------------------------------------------------------------
(* app.py: normalize_tokens, fuzzy_similarity, compute_skill_match_score.  *)

\* re.sub(r'[^a-z0-9#+\-\.]', "", t): the characters that survive
KeptChar(c) == IsLowerChar(c) \/ IsDigitChar(c) \/ c \in {"#", "+", "-", "."}

normalize_tokens(text) ==
    LET tokens == word_tokenize(lower(text))
        words == [i \in 1..Len(tokens) |-> SelectSeq(tokens[i], KeptChar)]
    IN { words[i] : i \in { k \in 1..Len(words) :
            /\ words[k] # <<>>
            /\ (isalnum(words[k]) \/ \E ch \in {"+", "#", "-", "."} : ch \in Range(words[k]))
            /\ words[k] \notin STOPWORDS } }

fuzzy_similarity(a, b) ==
    IF a = <<>> \/ b = <<>> THEN Rat(0, 1)
    ELSE ratio(lower(a), lower(b))

\* the literals of lines 125 and 128
STRONG_FUZZY == Rat(7, 10)

PARTIAL_FUZZY == Rat(45, 100)

\* max(iterable, default=0) over a set of rationals
RatMaxOf(S) ==
    IF S = {} THEN Rat(0, 1)
    ELSE LET x == CHOOSE y \in S : \A z \in S : RatGeq(y, z) IN x

\* lines 113-116: does the skill share a normalised token with the resume
token_overlap(resume_text, skill) ==
    LET resume_tokens == normalize_tokens(resume_text)
        skill_norm == strip(lower(skill))
        skill_tokens == normalize_tokens(skill_norm)
    IN skill_tokens # {} /\ (skill_tokens \cap resume_tokens) # {}

\* lines 121-124: best fuzzy score of the skill against the whole resume text
\* and against every resume token
best_fscore(resume_text, skill) ==
    LET resume_tokens == normalize_tokens(resume_text)
        skill_norm == strip(lower(skill))
        fscore_text == fuzzy_similarity(skill_norm, resume_text)
        fscore_tokens == RatMaxOf({fuzzy_similarity(skill_norm, tok) : tok \in resume_tokens})
    IN RatNorm(RatMax(fscore_text, fscore_tokens))

\* line 125 with > for >=: a score equal to the threshold is not a match
is_strong_fuzzy_strict(fscore) == RatLess(STRONG_FUZZY, fscore)

\* line 125 and line 128
is_strong_fuzzy(fscore) == RatGeq(fscore, STRONG_FUZZY)

is_partial_fuzzy(fscore) == RatGeq(fscore, PARTIAL_FUZZY)

\* the loop body without the continue of line 118: a skill matched by token
\* overlap falls through to the fuzzy check and is classified a second time
skill_step_no_continue(acc, skill, ev) ==
    LET first == IF ev.overlap THEN [acc EXCEPT !.matched = Append(@, skill)] ELSE acc IN
    IF RatGeq(ev.fscore, STRONG_FUZZY)
    THEN [first EXCEPT !.matched = Append(@, skill),
                       !.partial_matches = Append(@, <<skill, ev.fscore>>)]
    ELSE IF RatGeq(ev.fscore, PARTIAL_FUZZY)
    THEN [first EXCEPT !.missing = Append(@, skill),
                       !.partial_matches = Append(@, <<skill, ev.fscore>>)]
    ELSE [first EXCEPT !.missing = Append(@, skill)]

\* one pass of the loop body, lines 112-133, on the accumulators
\* (matched, missing, partial_matches); ev is the skill's evidence
skill_step(acc, skill, ev) ==
    IF ev.overlap
    THEN [acc EXCEPT !.matched = Append(@, skill)]
    ELSE IF is_strong_fuzzy(ev.fscore)
    THEN [acc EXCEPT !.matched = Append(@, skill),
                     !.partial_matches = Append(@, <<skill, ev.fscore>>)]
    ELSE IF is_partial_fuzzy(ev.fscore)
    THEN [acc EXCEPT !.missing = Append(@, skill),
                     !.partial_matches = Append(@, <<skill, ev.fscore>>)]
    ELSE [acc EXCEPT !.missing = Append(@, skill)]

\* the sum with the bounds of line 138 (a value the code computes and never
\* uses): every fuzzy score in [0.45, 1.0), those of matched skills included
RECURSIVE partial_effective_upto_one(_)
partial_effective_upto_one(partial_matches) ==
    IF partial_matches = <<>> THEN Rat(0, 1)
    ELSE LET score == Head(partial_matches)[2]
             rest == partial_effective_upto_one(Tail(partial_matches))
         IN IF RatLess(score, Rat(1, 1)) /\ RatGeq(score, PARTIAL_FUZZY)
            THEN RatAdd(score, rest) ELSE rest

\* half credit for every fuzzy score in [0.45, 0.7), as the comments of lines
\* 129 and 136 word it, in place of the score itself
RECURSIVE partial_effective_half(_)
partial_effective_half(partial_matches) ==
    IF partial_matches = <<>> THEN Rat(0, 1)
    ELSE LET score == Head(partial_matches)[2]
             rest == partial_effective_half(Tail(partial_matches))
         IN IF RatLess(score, STRONG_FUZZY) /\ RatGeq(score, PARTIAL_FUZZY)
            THEN RatAdd(Rat(1, 2), rest) ELSE rest

\* line 145: the fuzzy scores in [0.45, 0.7)
RECURSIVE partial_effective(_)
partial_effective(partial_matches) ==
    IF partial_matches = <<>> THEN Rat(0, 1)
    ELSE LET score == Head(partial_matches)[2]
             rest == partial_effective(Tail(partial_matches))
         IN IF RatLess(score, STRONG_FUZZY) /\ RatGeq(score, PARTIAL_FUZZY)
            THEN RatAdd(score, rest) ELSE rest

\* p / q rounded to the nearest integer, ties to even
RoundDiv(p, q) ==
    LET fl == p \div q
        r == p % q
    IN IF 2 * r < q THEN fl
       ELSE IF 2 * r > q THEN fl + 1
       ELSE IF fl % 2 = 0 THEN fl ELSE fl + 1

\* round(x * 100, 2) as a rational with denominator 100
round2_percent(x) == Rat(RoundDiv(10000 * x.num, x.den), 100)

\* lines 137-148 with the skills that are not matched counted in exact_count
score_percent_counts_missing(matched, partial_matches, n_skills) ==
    LET exact_count == n_skills - Len(matched)
        total_skills == IF n_skills > 1 THEN n_skills ELSE 1
        matched_effective == RatAdd(Rat(exact_count, 1), partial_effective(partial_matches))
        raw_ratio == Rat(matched_effective.num, matched_effective.den * total_skills)
    IN round2_percent(raw_ratio)

\* lines 137-148 (line 138 computes a sum that is never used)
score_percent(matched, partial_matches, n_skills) ==
    LET exact_count == Len(matched)
        total_skills == IF n_skills > 1 THEN n_skills ELSE 1
        matched_effective == RatAdd(Rat(exact_count, 1), partial_effective(partial_matches))
        raw_ratio == Rat(matched_effective.num, matched_effective.den * total_skills)
    IN round2_percent(raw_ratio)

----------------------------------------------------------------------------
(* The inputs the matchers are applied to.                                 *)

\* longest list of required skills drawn from SkillVocab
MaxSkills == 2

\* number of matcher calls in one run of the interpreter
MaxCalls == 2

\* ""
EmptyResume == <<>>

\* "Experienced Python developer with SQL and Git skills"
ScenarioResume ==
    <<"E", "x", "p", "e", "r", "i", "e", "n", "c", "e", "d", " ",
      "P", "y", "t", "h", "o", "n", " ",
      "d", "e", "v", "e", "l", "o", "p", "e", "r", " ",
      "w", "i", "t", "h", " ", "S", "Q", "L", " ", "a", "n", "d", " ",
      "G", "i", "t", " ", "s", "k", "i", "l", "l", "s">>

\* "it": a stopword and nothing else
StopwordResume == <<"i", "t">>

\* ",": punctuation and nothing else
PunctResume == <<",">>

\* "transcript"
TranscriptResume == <<"t", "r", "a", "n", "s", "c", "r", "i", "p", "t">>

\* "mysql scripting"
MysqlResume == <<"m", "y", "s", "q", "l", " ", "s", "c", "r", "i", "p", "t", "i", "n", "g">>

\* "asha@example.com sql": a resume that holds an e-mail address
ContactResume ==
    <<"a", "s", "h", "a", "@", "e", "x", "a", "m", "p", "l", "e", ".", "c", "o", "m",
      " ", "s", "q", "l">>

Resumes == {EmptyResume, ScenarioResume, StopwordResume, PunctResume,
            TranscriptResume, MysqlResume}

Python == <<"P", "y", "t", "h", "o", "n">>

SQL == <<"S", "Q", "L">>

Docker == <<"D", "o", "c", "k", "e", "r">>

sql == <<"s", "q", "l">>

git == <<"g", "i", "t">>

JavaScript == <<"J", "a", "v", "a", "S", "c", "r", "i", "p", "t">>

SkillVocab == {Python, sql, git, JavaScript}

\* ["Python", "SQL", "Docker"]
ScenarioSkills == <<Python, SQL, Docker>>

SkillLists == UNION {[1..n -> SkillVocab] : n \in 0..MaxSkills} \cup {ScenarioSkills}

AllSkills == SkillVocab \cup Range(ScenarioSkills)

----------------------------------------------------------------------------
(* compute_skill_match_score.                                              *)

\* what lines 113-124 find for one skill; fscore is computed only when the
\* tokens do not overlap (the code continues before line 121 otherwise)
skill_evidence(resume_text, skill) ==
    LET overlap == token_overlap(resume_text, skill) IN
    [overlap |-> overlap,
     fscore |-> IF overlap THEN Rat(0, 1) ELSE best_fscore(resume_text, skill)]

\* skill_evidence tabulated once over the inputs of the model
SkillEvidence ==
    [p \in (Resumes \cup {ContactResume}) \X AllSkills |->
        skill_evidence(p[1], p[2])] @@ << >>

RECURSIVE skill_loop(_, _, _)
skill_loop(resume_text, skills, acc) ==
    IF skills = <<>> THEN acc
    ELSE skill_loop(resume_text, Tail(skills),
                    skill_step(acc, Head(skills), SkillEvidence[<<resume_text, Head(skills)>>]))

\* lines 137-148: the result, from the accumulators the loop leaves
match_result(acc, n_skills) ==
    [matched |-> acc.matched,
     missing |-> acc.missing,
     score |-> score_percent(acc.matched, acc.partial_matches, n_skills)]

compute_skill_match_score(resume_text, skills) ==
    match_result(skill_loop(resume_text, skills,
                            [matched |-> <<>>, missing |-> <<>>, partial_matches |-> <<>>]),
                 Len(skills))

----------------------------------------------------------------------------
(* match_skills.py: extract_keywords, match_resume_to_job.                 *)

\* position of a character in the model's alphabet
AllChars == LowerChars \o UpperChars \o DigitChars \o <<" ", ",">>

CharRank(c) == CHOOSE i \in 1..Len(AllChars) : AllChars[i] = c

RECURSIVE StrLess(_, _)
StrLess(a, b) ==
    IF b = <<>> THEN FALSE
    ELSE IF a = <<>> THEN TRUE
    ELSE IF Head(a) = Head(b) THEN StrLess(Tail(a), Tail(b))
    ELSE CharRank(Head(a)) < CharRank(Head(b))

HashSeeds == {0, 1}

\* an iteration order that changes from one call to the next
HashBefore_per_call(x, y) ==
    IF (hashseed + Len(calls)) % 2 = 0 THEN StrLess(x, y) ELSE StrLess(y, x)

\* does x come before y when a set of str is iterated: the order follows the
\* strings' hashes, which the interpreter salts once per process (hashseed)
HashBefore(x, y) == IF hashseed = 0 THEN StrLess(x, y) ELSE StrLess(y, x)

\* list(S) for a set S of str
RECURSIVE SetToList(_)
SetToList(S) ==
    IF S = {} THEN <<>>
    ELSE LET first == CHOOSE x \in S : \A y \in S \ {x} : HashBefore(x, y)
         IN <<first>> \o SetToList(S \ {first})

\* \w and \s of re.sub(r'[^\w\s]', '', ...)
WordOrSpaceChar(c) ==
    IsLowerChar(c) \/ IsUpperChar(c) \/ IsDigitChar(c) \/ c = "_" \/ IsSpaceChar(c)

\* lines 17-30: the keywords of a text, before line 33 makes them unique
keyword_list(text) ==
    IF text = <<>> THEN <<>>
    ELSE LET cleaned == SelectSeq(lower(text), WordOrSpaceChar)
             tokens == word_tokenize(cleaned)
         IN SelectSeq(tokens,
                LAMBDA word : isalpha(word) /\ word \notin STOPWORDS /\ Len(word) > 1)

\* set(keywords) tabulated once over the resumes of the model
KeywordSet == [text \in Resumes |-> Range(keyword_list(text))] @@ << >>

extract_keywords(text) == SetToList(KeywordSet[text])

\* the model argument is not used by the code and is left out
match_resume_to_job(resume_keywords, jd_skills) ==
    IF resume_keywords = <<>> \/ jd_skills = <<>>
    THEN [matched |-> <<>>, missing |-> jd_skills, score |-> Rat(0, 1)]
    ELSE LET resume_skills_set == Range(resume_keywords)
             jd_skills_set == Range(jd_skills)
             matched_skills == SetToList(resume_skills_set \cap jd_skills_set)
             missing_skills == SetToList(jd_skills_set \ resume_skills_set)
         IN IF jd_skills_set = {}
            THEN [matched |-> <<>>, missing |-> <<>>, score |-> Rat(100, 1)]
            ELSE [matched |-> matched_skills,
                  missing |-> missing_skills,
                  score |-> Rat(Len(matched_skills) * 100, Cardinality(jd_skills_set))]

----------------------------------------------------------------------------
(* The state machine: one interpreter process in which the two matchers    *)
(* are called on resumes against the required skills of one job.  calls is *)
(* the log of the calls made, each with its input and its result.          *)

CallRecord(fn, resume_text, res) ==
    [fn |-> fn, resume_text |-> resume_text,
     matched |-> res.matched, missing |-> res.missing, score |-> res.score]

Init ==
    /\ hashseed \in HashSeeds
    /\ job_skills \in SkillLists
    /\ calls = <<>>
    /\ DbIdle /\ RequestsIdle /\ MailIdle /\ UiIdle

CallComputeSkillMatchScore(resume_text) ==
    /\ Len(calls) < MaxCalls
    /\ calls' = Append(calls, CallRecord("compute_skill_match_score", resume_text,
                           compute_skill_match_score(resume_text, job_skills)))
    /\ UNCHANGED <<hashseed, job_skills, db_vars, requests, mail_vars, ui_vars>>

CallMatchResumeToJob(resume_text) ==
    /\ Len(calls) < MaxCalls
    /\ calls' = Append(calls, CallRecord("match_resume_to_job", resume_text,
                           match_resume_to_job(extract_keywords(resume_text), job_skills)))
    /\ UNCHANGED <<hashseed, job_skills, db_vars, requests, mail_vars, ui_vars>>

Next ==
    \/ \E resume_text \in Resumes : CallComputeSkillMatchScore(resume_text)
    \/ \E resume_text \in Resumes : CallMatchResumeToJob(resume_text)

Spec == Init /\ [][Next]_vars

----------------------------------------------------------------------------
(* Properties of the matchers, stated over the log of calls.               *)

\* normalize_tokens tabulated once over the resumes of the model
ResumeTokens == [text \in Resumes |-> normalize_tokens(text)] @@ << >>

CallIds == 1..Len(calls)

IsCompute(c) == c.fn = "compute_skill_match_score"

IsMatch(c) == c.fn = "match_resume_to_job"

\* the evidence set the matcher called in c extracted from its resume
EvidenceSet(c) ==
    IF IsCompute(c) THEN ResumeTokens[c.resume_text]
    ELSE KeywordSet[c.resume_text]

\* the fuzzy score of a skill lies in the partial-credit band [0.45, 0.7)
InPartialBand(resume_text, skill) ==
    LET ev == SkillEvidence[<<resume_text, skill>>] IN
    /\ ~ev.overlap
    /\ RatGeq(ev.fscore, PARTIAL_FUZZY)
    /\ RatLess(ev.fscore, STRONG_FUZZY)

\* sum of the fuzzy scores of the skills of a list that lie in the band
RECURSIVE BandCredit(_, _)
BandCredit(resume_text, skills) ==
    IF skills = <<>> THEN Rat(0, 1)
    ELSE LET rest == BandCredit(resume_text, Tail(skills)) IN
         IF InPartialBand(resume_text, Head(skills))
         THEN RatAdd(SkillEvidence[<<resume_text, Head(skills)>>].fscore, rest)
         ELSE rest

\* first position of x in the sequence s (0 when absent)
IndexOf(s, x) ==
    IF x \in Range(s) THEN CHOOSE i \in 1..Len(s) : s[i] = x /\ \A k \in 1..(i - 1) : s[k] # x
    ELSE 0

\* 100 * m / n rounded to 2 decimals, 0 when n = 0
CountScore(m, n) == IF n = 0 THEN Rat(0, 1) ELSE round2_percent(Rat(m, n))

\* C1: in every call of either matcher, matched and missing partition the
\* required skills: their union is the set of required skills and they
\* share no skill.
C1_Partition ==
    \A i \in CallIds :
        /\ Range(calls[i].matched) \cup Range(calls[i].missing) = Range(job_skills)
        /\ Range(calls[i].matched) \cap Range(calls[i].missing) = {}

\* both matchers have returned a result with matched and missing skills
C1_Witness ==
    \E i, j \in CallIds :
        /\ IsCompute(calls[i]) /\ IsMatch(calls[j])
        /\ calls[i].matched # <<>> /\ calls[i].missing # <<>>
        /\ calls[j].matched # <<>> /\ calls[j].missing # <<>>

C3_ZeroScoreOnEmptyInput ==
    \A i \in CallIds :
        (job_skills = <<>> \/ EvidenceSet(calls[i]) = {}) => calls[i].score.num = 0

\* C4 as stated: without required skills matched = [] and missing = []; with
\* an empty evidence set matched = [] and missing is the whole list.
C4_EmptyInputClassification ==
    \A i \in CallIds :
        /\ job_skills = <<>> => calls[i].matched = <<>> /\ calls[i].missing = <<>>
        /\ EvidenceSet(calls[i]) = {} =>
               calls[i].matched = <<>> /\ calls[i].missing = job_skills

\* C5: every score lies in [0, 100].
C5_ScoreInRange ==
    \A i \in CallIds :
        /\ calls[i].score.den > 0
        /\ RatGeq(calls[i].score, Rat(0, 1))
        /\ RatGeq(Rat(100, 1), calls[i].score)

\* a list with a repeated skill has been scored with partial credit, and one
\* has been scored 100
C5_Witness ==
    \E i, j \in CallIds :
        /\ IsCompute(calls[i])
        /\ Len(job_skills) > Cardinality(Range(job_skills))
        /\ \E s \in Range(calls[i].missing) : InPartialBand(calls[i].resume_text, s)
        /\ RatEq(calls[j].score, Rat(100, 1))

\* C6 as stated: matched keeps the order of the required-skill list.
C6_MatchedKeepsOrder ==
    \A i \in CallIds :
        \A p, q \in 1..Len(calls[i].matched) :
            p < q => IndexOf(job_skills, calls[i].matched[p])
                        <= IndexOf(job_skills, calls[i].matched[q])

C8_ThresholdInclusive ==
    \A i \in CallIds :
        IsCompute(calls[i]) =>
            \A s \in Range(job_skills) :
                LET ev == SkillEvidence[<<calls[i].resume_text, s>>] IN
                ~ev.overlap =>
                    /\ RatEq(ev.fscore, STRONG_FUZZY) =>
                           s \in Range(calls[i].matched) /\ s \notin Range(calls[i].missing)
                    /\ RatLess(ev.fscore, STRONG_FUZZY) =>
                           s \in Range(calls[i].missing) /\ s \notin Range(calls[i].matched)

\* one call classified a skill scoring exactly the threshold and a skill
\* scoring below it
C8_Witness ==
    \E i \in CallIds :
        /\ IsCompute(calls[i])
        /\ \E s \in Range(calls[i].matched) :
               LET ev == SkillEvidence[<<calls[i].resume_text, s>>] IN
               ~ev.overlap /\ RatEq(ev.fscore, STRONG_FUZZY)
        /\ \E s \in Range(calls[i].missing) :
               LET ev == SkillEvidence[<<calls[i].resume_text, s>>] IN
               ~ev.overlap /\ RatLess(ev.fscore, STRONG_FUZZY) /\ ev.fscore.num > 0

\* C9 as stated: a required skill whose lowercase form is a token of the
\* resume is matched, and the scenario resume against ["Python", "SQL",
\* "Docker"] gives matched Python and SQL, missing Docker, score 66.67.
C9_CaseInsensitiveScenario ==
    \A i \in CallIds :
        /\ \A s \in Range(job_skills) :
               lower(s) \in EvidenceSet(calls[i]) => s \in Range(calls[i].matched)
        /\ (calls[i].resume_text = ScenarioResume /\ job_skills = ScenarioSkills) =>
               /\ calls[i].matched = <<Python, SQL>>
               /\ calls[i].missing = <<Docker>>
               /\ round2_percent(Rat(calls[i].score.num, calls[i].score.den * 100))
                      = Rat(6667, 100)

----------------------------------------------------------------------------
(* db.py: the users and applications tables.  A table is the sequence of   *)
(* its rows in insertion order; a str of a column is a TLA+ string.        *)

\* rows of the applications table the model creates
MaxApps == 2

\* sha256(password.encode()).hexdigest(): one digest per password
sha256_hexdigest(password) == <<"sha256", password>>

\* the id the table's integer primary key gives the next row (no row is deleted)
next_id(table) == Len(table) + 1

\* session.query(...).filter_by(...).first(): <<the first row that passes>>,
\* or << >> for None
first(table, Passes(_)) ==
    IF \E i \in 1..Len(table) : Passes(table[i])
    THEN <<table[CHOOSE i \in 1..Len(table) :
                     Passes(table[i]) /\ \A k \in 1..(i - 1) : ~Passes(table[k])]>>
    ELSE <<>>

\* the statement of register_user line 46
register_user_query(user_rows, username) ==
    first(user_rows, LAMBDA u : u.username = username)

\* lines 50-54: the INSERT of session.commit(), which the unique constraint
\* on users.username (line 22) refuses for a username already stored
register_user_commit(user_rows, username, hashed_pw, role) ==
    IF \E i \in 1..Len(user_rows) : user_rows[i].username = username
    THEN [users |-> user_rows, raised |-> "IntegrityError"]
    ELSE [users |-> Append(user_rows,
                        [id |-> next_id(user_rows), username |-> username,
                         password_hash |-> hashed_pw, role |-> role]),
          raised |-> None, result |-> TRUE]

register_user(user_rows, username, password, role) ==
    LET hashed_pw == sha256_hexdigest(password)
        exists == register_user_query(user_rows, username)
    IN IF exists # <<>>
       THEN [users |-> user_rows, raised |-> None, result |-> FALSE]
       ELSE register_user_commit(user_rows, username, hashed_pw, role)

login_user(user_rows, username, password) ==
    LET hashed_pw == sha256_hexdigest(password)
        user == first(user_rows,
                      LAMBDA u : u.username = username /\ u.password_hash = hashed_pw)
    IN IF user # <<>> THEN <<TRUE, user[1].role, user[1].id>>
       ELSE <<FALSE, None, None>>

\* ",".join(skills)
RECURSIVE join_comma(_)
join_comma(skills) ==
    IF skills = <<>> THEN ""
    ELSE IF Len(skills) = 1 THEN skills[1]
    ELSE skills[1] \o "," \o join_comma(Tail(skills))

\* line 77: "Round 1" if match_score > 70 else "Rejected"
initial_phase(match_score) ==
    IF RatLess(Rat(70, 1), match_score) THEN "Round 1" ELSE "Rejected"

\* create_application that keeps one application per user: the new row
\* replaces the rows of the same user_id
create_application_one_per_user(app_rows, a, utcnow) ==
    LET kept == SelectSeq(app_rows, LAMBDA r : r.user_id # a.user_id)
        app_id == next_id(app_rows)
    IN [applications |-> Append(kept,
            [id |-> app_id, user_id |-> a.user_id, candidate_name |-> a.candidate_name,
             candidate_email |-> a.candidate_email, phone |-> a.phone,
             skills |-> IF a.skills_is_list THEN join_comma(a.skills) ELSE a.skills,
             job_role |-> a.job_role, match_score |-> a.match_score,
             phase |-> initial_phase(a.match_score), uploaded_at |-> utcnow]),
        result |-> app_id]

\* a: the arguments; utcnow: the clock read by the default of uploaded_at
create_application(app_rows, a, utcnow) ==
    LET app_id == next_id(app_rows)
    IN [applications |-> Append(app_rows,
            [id |-> app_id, user_id |-> a.user_id, candidate_name |-> a.candidate_name,
             candidate_email |-> a.candidate_email, phone |-> a.phone,
             skills |-> IF a.skills_is_list THEN join_comma(a.skills) ELSE a.skills,
             job_role |-> a.job_role, match_score |-> a.match_score,
             phase |-> initial_phase(a.match_score), uploaded_at |-> utcnow]),
        result |-> app_id]

\* strftime("%Y-%m-%d %H:%M") of a time in seconds: the minute it lies in
strftime_minutes(seconds) == seconds \div 60

list_user_applications(app_rows, user_id) ==
    LET apps == SelectSeq(app_rows, LAMBDA r : r.user_id = user_id)
    IN [i \in 1..Len(apps) |->
           [id |-> apps[i].id, candidate_name |-> apps[i].candidate_name,
            candidate_email |-> apps[i].candidate_email, job_role |-> apps[i].job_role,
            match_score |-> apps[i].match_score, phase |-> apps[i].phase,
            uploaded_at |-> strftime_minutes(apps[i].uploaded_at)]]

list_all_applications_for_hr(app_rows) ==
    [i \in 1..Len(app_rows) |->
        [id |-> app_rows[i].id, candidate_name |-> app_rows[i].candidate_name,
         candidate_email |-> app_rows[i].candidate_email, job_role |-> app_rows[i].job_role,
         match_score |-> app_rows[i].match_score, phase |-> app_rows[i].phase]]

\* update_phase without the filter on id: every row gets the phase
update_phase_every_row(app_rows, application_id, new_phase) ==
    [i \in 1..Len(app_rows) |-> [app_rows[i] EXCEPT !.phase = new_phase]]

update_phase(app_rows, application_id, new_phase) ==
    LET app == first(app_rows, LAMBDA r : r.id = application_id)
    IN IF app # <<>>
       THEN [i \in 1..Len(app_rows) |->
                IF app_rows[i].id = app[1].id
                THEN [app_rows[i] EXCEPT !.phase = new_phase]
                ELSE app_rows[i]]
       ELSE app_rows

get_user_id_by_email(user_rows, email) ==
    LET user == first(user_rows, LAMBDA u : u.username = email)
    IN IF user # <<>> THEN user[1].id ELSE None

----------------------------------------------------------------------------
(* The functions of db.py called one after the other, each in its own      *)
(* session, on tables that start empty.                                    *)

Usernames == {"asha@example.com", "ravi@example.com"}

Passwords == {"pw-a", "pw-b"}

\* register_user(username, password, role)
Registrations ==
    {[username |-> "asha@example.com", password |-> "pw-a", role |-> "User"],
     [username |-> "ravi@example.com", password |-> "pw-b", role |-> "HR"]}

\* create_application(...) and the clock at the insert: a score of exactly
\* 70 with the skills as a list, and a score of 84.44 with the skills as a str
Submissions ==
   <<[user_id |-> 1, candidate_name |-> "Asha Rao",
      candidate_email |-> "asha@example.com", phone |-> "555-0100",
      skills_is_list |-> TRUE, skills |-> <<"Python", "SQL">>,
      job_role |-> "Data Scientist", match_score |-> Rat(70, 1), utcnow |-> 3599],
     [user_id |-> 2, candidate_name |-> "Ravi Iyer",
      candidate_email |-> "ravi@example.com", phone |-> "555-0101",
      skills_is_list |-> FALSE, skills |-> "Docker",
      job_role |-> "DevOps Engineer", match_score |-> Rat(8444, 100), utcnow |-> 3600]>>

\* update_phase(application_id, new_phase): ids stored and not stored; new_phase
\* is any str, here phases of the pipeline and the column's default (line 36)
ApplicationIds == 1..(MaxApps + 1)

NewPhases == {"Round 2", "Selected", "Rejected", "Not Selected"}

InitDb ==
    /\ users = <<>>
    /\ applications = <<>>
    /\ db_last = NoCall
    /\ MatcherIdle /\ RequestsIdle /\ MailIdle /\ UiIdle

db_others == <<matcher_vars, requests, mail_vars, ui_vars>>

RegisterUser(r) ==
    LET out == register_user(users, r.username, r.password, r.role) IN
    /\ users' = out.users
    /\ db_last' = [op |-> "register_user", args |-> r, result |-> out.result]
    /\ UNCHANGED <<applications, db_others>>

LoginUser(username, password) ==
    /\ db_last' = [op |-> "login_user", args |-> <<username, password>>,
                   result |-> login_user(users, username, password)]
    /\ UNCHANGED <<users, applications, db_others>>

CreateApplication(a) ==
    LET out == create_application(applications, a, a.utcnow) IN
    /\ Len(applications) < MaxApps
    /\ applications' = out.applications
    /\ db_last' = [op |-> "create_application", args |-> a, result |-> out.result]
    /\ UNCHANGED <<users, db_others>>

ListUserApplications(user_id) ==
    /\ db_last' = [op |-> "list_user_applications", args |-> user_id,
                   result |-> list_user_applications(applications, user_id)]
    /\ UNCHANGED <<users, applications, db_others>>

ListAllApplicationsForHr ==
    /\ db_last' = [op |-> "list_all_applications_for_hr", args |-> <<>>,
                   result |-> list_all_applications_for_hr(applications)]
    /\ UNCHANGED <<users, applications, db_others>>

UpdatePhase(application_id, new_phase) ==
    /\ applications' = update_phase(applications, application_id, new_phase)
    /\ db_last' = [op |-> "update_phase", args |-> <<application_id, new_phase>>,
                   result |-> None]
    /\ UNCHANGED <<users, db_others>>

GetUserIdByEmail(email) ==
    /\ db_last' = [op |-> "get_user_id_by_email", args |-> email,
                   result |-> get_user_id_by_email(users, email)]
    /\ UNCHANGED <<users, applications, db_others>>

NextDb ==
    \/ \E r \in Registrations : RegisterUser(r)
    \/ \E username \in Usernames, password \in Passwords : LoginUser(username, password)
    \/ \E k \in 1..Len(Submissions) : CreateApplication(Submissions[k])
    \/ \E user_id \in 1..2 : ListUserApplications(user_id)
    \/ ListAllApplicationsForHr
    \/ \E application_id \in ApplicationIds, new_phase \in NewPhases :
           UpdatePhase(application_id, new_phase)
    \/ \E email \in Usernames : GetUserIdByEmail(email)

SpecDb == InitDb /\ [][NextDb]_vars

----------------------------------------------------------------------------
(* Properties of the application store.                                    *)

\* app.py line 450: the HR dashboard reports the score as eligible for interview
hr_eligible(score) == RatGeq(score, Rat(70, 1))

\* the phases of the hiring pipeline
PhaseEnum == {"Applied", "Round 1", "Round 2", "Final", "Selected", "Rejected"}

\* the pipeline's transition table: q may follow p
PipelineStep(p, q) ==
    \/ p = "Applied" /\ q \in {"Round 1", "Rejected"}
    \/ p = "Round 1" /\ q \in {"Round 2", "Rejected"}
    \/ p = "Round 2" /\ q \in {"Final", "Rejected"}
    \/ p = "Final" /\ q \in {"Selected", "Rejected"}

ApplicationIdSet(app_rows) == {app_rows[i].id : i \in 1..Len(app_rows)}

\* C11: after any sequence of create_application and update_phase calls the
\* phase of every stored application is one of Applied, Round 1, Round 2,
\* Final, Selected, Rejected.
C11_PhaseInEnumeration ==
    \A i \in 1..Len(applications) : applications[i].phase \in PhaseEnum

\* C12: every change of an application's phase is a step of the pipeline:
\* from a non-terminal phase to its successor or to Rejected, and never out
\* of Rejected or Selected.
C12_PipelineTransitions ==
    [][\A i \in 1..Len(applications) :
           applications'[i].phase # applications[i].phase
               => PipelineStep(applications[i].phase, applications'[i].phase)]_vars

\* C13: no call of a function of db.py removes a stored application id, and
\* the phase of an application already stored changes only in a call of
\* update_phase.
C13_NeverDeletedPhaseByUpdateOnly ==
    [][/\ ApplicationIdSet(applications) \subseteq ApplicationIdSet(applications')
       /\ \A i \in 1..Len(applications), j \in 1..Len(applications') :
              (/\ applications'[j].id = applications[i].id
               /\ applications'[j].phase # applications[i].phase)
                  => db_last'.op = "update_phase"]_vars

\* two applications are stored, the phase of one was changed, and a listing
\* was the last call
C13_Witness ==
    /\ Len(applications) = 2
    /\ \E i \in 1..2 :
           applications[i].phase # initial_phase(applications[i].match_score)
    /\ db_last.op = "list_all_applications_for_hr"
    /\ Len(users) = 2

\* C14: update_phase(application_id, new_phase) sets the phase of the
\* application with that id and changes nothing else: not another field of
\* it, not another application, not the users; without such an application
\* the store stays as it is; and the call returns normally.
C14_UpdatePhaseFrame ==
    [][db_last'.op = "update_phase" =>
           /\ Len(applications') = Len(applications)
           /\ \A i \in 1..Len(applications) :
                  IF applications[i].id = db_last'.args[1]
                  THEN /\ applications'[i].phase = db_last'.args[2]
                       /\ [applications'[i] EXCEPT !.phase = applications[i].phase]
                              = applications[i]
                  ELSE applications'[i] = applications[i]
           /\ users' = users
           /\ db_last'.result = None]_vars

\* update_phase has set the phase of the second of two applications, after
\* it had set that of the first
C14_Witness ==
    /\ db_last.op = "update_phase"
    /\ db_last.args = <<2, "Selected">>
    /\ Len(applications) = 2
    /\ applications[2].phase = "Selected"
    /\ applications[1].phase = "Round 2"

\* update_phase was called with an id that no application has
C14_WitnessNoSuchId ==
    /\ db_last.op = "update_phase"
    /\ Len(applications) = 1
    /\ db_last.args[1] = 2

\* C16: create_application puts the new application in "Round 1" exactly
\* when the HR dashboard reports its score as eligible for interview, and in
\* "Rejected" otherwise.
C16_SameCutoff ==
    db_last.op = "create_application" =>
        LET app == applications[db_last.result] IN
        /\ app.phase = "Round 1" <=> hr_eligible(app.match_score)
        /\ app.phase = "Rejected" <=> ~hr_eligible(app.match_score)

----------------------------------------------------------------------------
(* register_user called by concurrent requests, each in its own session:   *)
(* the query of line 46 and the commit of line 52 are two statements sent  *)
(* to the database, and statements of other requests run between them.     *)

\* concurrent calls of register_user
MaxRequests == 3

RequestIds == 1..MaxRequests

InitRequests ==
    /\ users = <<>>
    /\ requests \in [RequestIds ->
                        {[pc |-> "query", args |-> r] : r \in Registrations}]
    /\ applications = <<>> /\ db_last = NoCall
    /\ MatcherIdle /\ MailIdle /\ UiIdle

\* lines 45-49: the query, and return False when the username exists
RegisterUserQuery(p) ==
    LET exists == register_user_query(users, requests[p].args.username) IN
    /\ requests[p].pc = "query"
    /\ requests' = [requests EXCEPT ![p] =
           IF exists # <<>>
           THEN [pc |-> "returned", args |-> @.args, raised |-> None, result |-> FALSE]
           ELSE [pc |-> "commit", args |-> @.args]]
    /\ UNCHANGED <<users, applications, db_last, matcher_vars, mail_vars, ui_vars>>

\* lines 50-54: add, commit, return True, or the exception of the commit
RegisterUserCommit(p) ==
    LET a == requests[p].args
        out == register_user_commit(users, a.username, sha256_hexdigest(a.password), a.role)
    IN
    /\ requests[p].pc = "commit"
    /\ users' = out.users
    /\ requests' = [requests EXCEPT ![p] =
           IF out.raised = None
           THEN [pc |-> "returned", args |-> a, raised |-> None, result |-> out.result]
           ELSE [pc |-> "raised", args |-> a, raised |-> out.raised]]
    /\ UNCHANGED <<applications, db_last, matcher_vars, mail_vars, ui_vars>>

NextRequests ==
    \/ \E p \in RequestIds : RegisterUserQuery(p)
    \/ \E p \in RequestIds : RegisterUserCommit(p)

SpecRequests == InitRequests /\ [][NextRequests]_vars

\* the calls for a username
RequestsFor(username) == {p \in RequestIds : requests[p].args.username = username}

Returned(p, b) == requests[p].pc = "returned" /\ requests[p].result = b

\* C19: when concurrent register_user calls with the same username have all
\* ended, exactly one of them has returned True, every other has returned
\* False, none has raised, and one row has that username.
C19_OneWinnerOthersFalse ==
    \A username \in Usernames :
        LET ps == RequestsFor(username) IN
        (ps # {} /\ \A p \in ps : requests[p].pc \in {"returned", "raised"}) =>
            /\ \E w \in ps : /\ Returned(w, TRUE)
                             /\ \A p \in ps \ {w} : Returned(p, FALSE)
            /\ Cardinality({i \in 1..Len(users) : users[i].username = username}) = 1

----------------------------------------------------------------------------
(* app.py: send_email_with_ics.  smtp is what the mail server does with    *)
(* this call; the result records what the function returned or raised,    *)
(* the st.error messages it showed and the SMTP steps it completed.        *)

\* truth value of a str or None
truthy(s) == s # None /\ s # ""

SmtpBehaviours ==
    {"accepts", "refuses connection", "refuses login", "refuses message", "fails on quit"}

\* lines 186-190: SMTP_SSL(...), login, send_message, and the QUIT that
\* leaving the with block sends; the steps completed, and the exception raised
smtp_session(smtp) ==
    CASE smtp = "refuses connection" -> [done |-> <<>>, raised |-> "OSError"]
      [] smtp = "refuses login" ->
             [done |-> <<"connect">>, raised |-> "SMTPAuthenticationError"]
      [] smtp = "refuses message" ->
             [done |-> <<"connect", "login">>, raised |-> "SMTPDataError"]
      [] smtp = "fails on quit" ->
             [done |-> <<"connect", "login", "send_message">>,
              raised |-> "SMTPResponseException"]
      [] smtp = "accepts" ->
             [done |-> <<"connect", "login", "send_message", "quit">>, raised |-> None]

\* send_email_with_ics without the except of lines 191-193
send_email_with_ics_no_except(secrets, to_email, has_meeting, smtp) ==
    IF ~truthy(secrets.EMAIL) \/ ~truthy(secrets.PASSWORD)
    THEN [raised |-> None, returned |-> FALSE, smtp_done |-> <<>>,
          errors |-> <<"Email not configured in secrets (EMAIL/PASSWORD).">>]
    ELSE IF ~truthy(to_email) \/ to_email = "Not found"
    THEN [raised |-> None, returned |-> FALSE, smtp_done |-> <<>>,
          errors |-> <<"Recipient email missing.">>]
    ELSE LET s == smtp_session(smtp) IN
         IF s.raised = None
         THEN [raised |-> None, returned |-> TRUE, smtp_done |-> s.done, errors |-> <<>>]
         ELSE [raised |-> s.raised, smtp_done |-> s.done, errors |-> <<>>]

\* has_meeting: meeting_start and meeting_end are given (the .ics part is attached)
send_email_with_ics(secrets, to_email, has_meeting, smtp) ==
    IF ~truthy(secrets.EMAIL) \/ ~truthy(secrets.PASSWORD)
    THEN [raised |-> None, returned |-> FALSE, smtp_done |-> <<>>,
          errors |-> <<"Email not configured in secrets (EMAIL/PASSWORD).">>]
    ELSE IF ~truthy(to_email) \/ to_email = "Not found"
    THEN [raised |-> None, returned |-> FALSE, smtp_done |-> <<>>,
          errors |-> <<"Recipient email missing.">>]
    ELSE LET s == smtp_session(smtp) IN
         IF s.raised = None
         THEN [raised |-> None, returned |-> TRUE, smtp_done |-> s.done, errors |-> <<>>]
         ELSE [raised |-> None, returned |-> FALSE, smtp_done |-> s.done,
               errors |-> <<"Failed to send email: " \o s.raised>>]

\* st.secrets.get("email", {}).get("EMAIL") and ("PASSWORD")
SecretsChoices ==
    {[EMAIL |-> e, PASSWORD |-> pw] :
        e \in {None, "", "hr@example.com"}, pw \in {None, "app-password"}}

ToEmails == {"", "Not found", "asha@example.com"}

----------------------------------------------------------------------------
(* app.py: the Streamlit script.  st.session_state is a function from the  *)
(* keys present to their values.  Every interaction of the user with a     *)
(* widget reruns the whole script; click is the button pressed, if any.    *)

\* records the model lets candidates_session hold
MaxRecords == 3

\* d[k] = v
SetKey(d, k, v) == [x \in DOMAIN d \cup {k} |-> IF x = k THEN v ELSE d[x]]

\* d.get(k, default)
GetKey(d, k, default) == IF k \in DOMAIN d THEN d[k] ELSE default

\* a button, by its key and the number its key ends with (0 without one)
NoClick == <<"", 0>>

\* the selectbox's first option
NoJob == "-- select --"

\* the rows of the jobs table (line 250): one job, its skills an array
Job == [id |-> 1, title |-> "Data Scientist", skills |-> ScenarioSkills]

job_map == [display \in {"Data Scientist"} |-> Job]

\* the files a user uploads: the text lines 283-286 extract from each, or
\* the exception of the extraction
UploadedFiles ==
    [name \in {"scenario.pdf", "contact.docx", "broken.pdf"} |->
        CASE name = "scenario.pdf" -> [text |-> ScenarioResume, raised |-> None]
          [] name = "contact.docx" -> [text |-> ContactResume, raised |-> None]
          [] name = "broken.pdf" -> [text |-> <<>>, raised |-> "PDFSyntaxError"]]

\* the widgets of a dashboard before the user touches them
FreshWidgets ==
    [uploaded_file |-> None, selected_job |-> NoJob, send_invite_user |-> FALSE]

\* [\w\.-]
IsAddressChar(c) ==
    IsLowerChar(c) \/ IsUpperChar(c) \/ IsDigitChar(c) \/ c \in {"_", ".", "-"}

\* the longest run of address characters that ends at text[i]
RECURSIVE RunBefore(_, _)
RunBefore(text, i) ==
    IF i >= 1 /\ IsAddressChar(text[i]) THEN Append(RunBefore(text, i - 1), text[i])
    ELSE <<>>

\* the longest run of address characters that starts at text[i]
RECURSIVE RunAfter(_, _)
RunAfter(text, i) ==
    IF i <= Len(text) /\ IsAddressChar(text[i]) THEN <<text[i]>> \o RunAfter(text, i + 1)
    ELSE <<>>

\* the str of a sequence of characters
RECURSIVE str_of(_)
str_of(chars) == IF chars = <<>> THEN "" ELSE Head(chars) \o str_of(Tail(chars))

\* re.search(r'[\w\.-]+@[\w\.-]+', text): the first "@" with an address
\* character on both sides, and the runs around it
extract_email_from_text(text) ==
    LET ats == {i \in 1..Len(text) :
                   /\ text[i] = "@"
                   /\ RunBefore(text, i - 1) # <<>>
                   /\ RunAfter(text, i + 1) # <<>>}
    IN IF ats = {} THEN "Not found"
       ELSE LET i == CHOOSE k \in ats : \A m \in ats : k <= m
            IN str_of(RunBefore(text, i - 1) \o <<"@">> \o RunAfter(text, i + 1))

\* extract_name: no line of the modelled texts is in capitals or title case,
\* and the named-entity fallback is taken to find no PERSON in them
extract_name(text) == "Not found"

\* extract_phone_from_text: the pattern needs six digits at least, and the
\* modelled texts hold none
extract_phone_from_text(text) ==
    CASE Cardinality({i \in 1..Len(text) : IsDigitChar(text[i])}) < 6 -> "Not found"

\* lines 296-316 and 405-418 for a job whose skills are an array of str
job_skills_of(job) == job.skills

\* lines 322-333: the record, from the job's id and the matcher's result
candidate_fields(resume_text, selected_job_display, job_id, res, now) ==
    [datetime |-> now,
     name |-> extract_name(resume_text),
     email |-> extract_email_from_text(resume_text),
     phone |-> extract_phone_from_text(resume_text),
     job |-> selected_job_display,
     job_id |-> job_id,
     score |-> res.score,
     matched |-> res.matched,
     missing |-> res.missing,
     raw_text_sample |-> IF Len(resume_text) > 1000
                         THEN SubSeq(resume_text, 1, 1000) \o <<".", ".", ".">>
                         ELSE resume_text]

\* lines 291-333: the record of an analysed resume; now is datetime.now()
candidate_record(resume_text, selected_job_display, now) ==
    candidate_fields(resume_text, selected_job_display, job_map[selected_job_display].id,
                     compute_skill_match_score(resume_text,
                                               job_skills_of(job_map[selected_job_display])),
                     now)

\* candidate_record tabulated once over the files and jobs of the model
CandidateRecords ==
    [p \in {UploadedFiles[name].text : name \in DOMAIN UploadedFiles} \X DOMAIN job_map |->
        candidate_record(p[1], p[2], 0)] @@ << >>

analysed_record(resume_text, selected_job_display, now) ==
    [CandidateRecords[<<resume_text, selected_job_display>>] EXCEPT !.datetime = now]

\* datetime.now() at an insert: later than the stamps of the records stored
now_for(candidates) == Len(candidates) + 1

\* candidates_session[i]["hr_status"] = status, i counted from 0; an index
\* past the end changes nothing here
set_hr_status(candidates, i, status) ==
    [k \in 1..Len(candidates) |->
        IF k = i + 1 THEN SetKey(candidates[k], "hr_status", status) ELSE candidates[k]]

\* what one run of the script leaves: the session state, the widgets' state,
\* the widgets it drew, and its call of send_email_with_ics, if any
RunResult(ss, w, drawn, mail) ==
    [session_state |-> ss, widgets |-> w, rendered |-> drawn, mail |-> mail]

MailCall(to_email, has_meeting, smtp, res) ==
    [op |-> "send_email_with_ics", to_email |-> to_email, has_meeting |-> has_meeting,
     smtp |-> smtp, res |-> res]

\* lines 334-381: the record is stored, the invitation widgets are drawn and
\* the invitation is sent on the click of its button
user_analysed(ss, w, click, secrets, smtp, record) ==
    LET invite == /\ truthy(secrets.EMAIL) /\ truthy(secrets.PASSWORD)
                  /\ record.email # "Not found"
        meet == invite /\ w.send_invite_user
    IN RunResult(
           SetKey(ss, "candidates_session", <<record>> \o ss.candidates_session),
           [w EXCEPT !.send_invite_user = meet],
           (IF invite THEN {<<"send_invite_user", 0>>} ELSE {})
               \cup (IF meet THEN {<<"user_meet_inputs", 0>>, <<"user_send_invite", 0>>}
                     ELSE {}),
           IF meet /\ click = <<"user_send_invite", 0>>
           THEN MailCall(record.email, TRUE, smtp,
                         send_email_with_ics(secrets, record.email, TRUE, smtp))
           ELSE NoCall)

\* lines 274-381: the candidate dashboard
user_dashboard(ss, w, click, secrets, smtp) ==
    IF ~(w.uploaded_file # None /\ w.selected_job # NoJob)
    THEN RunResult(ss, [w EXCEPT !.send_invite_user = FALSE], {}, NoCall)
    ELSE IF UploadedFiles[w.uploaded_file].raised # None
    THEN \* st.error, st.stop()
         RunResult(ss, [w EXCEPT !.send_invite_user = FALSE], {}, NoCall)
    ELSE user_analysed(ss, w, click, secrets, smtp,
                       analysed_record(UploadedFiles[w.uploaded_file].text, w.selected_job,
                                       now_for(ss.candidates_session)))

\* lines 493-505: the buttons of the session list, i counted from 0
RECURSIVE session_list_actions(_, _, _)
session_list_actions(candidates, i, click) ==
    IF i >= Len(candidates) THEN candidates
    ELSE LET offered == IF click = <<"offer", i>>
                        THEN set_hr_status(candidates, i, "Offer") ELSE candidates
             rejected == IF click = <<"reject", i>>
                         THEN set_hr_status(offered, i, "Rejected") ELSE offered
         IN session_list_actions(rejected, i + 1, click)

\* lines 438-505: the buttons under an analysed resume, then the session
\* list.  analyse: a resume was analysed in this run, email is its address and
\* inserted the list with its record in front
hr_session(ss, w, click, secrets, smtp, analyse, email, inserted) ==
    LET n == Len(inserted)
        can_mail == /\ truthy(secrets.EMAIL) /\ truthy(secrets.PASSWORD)
                    /\ email # "Not found"
        passed == IF analyse /\ click = <<"hr_pass", n>>
                  THEN set_hr_status(inserted, 0, "Pass") ELSE inserted
        failed == IF analyse /\ click = <<"hr_fail", n>>
                  THEN set_hr_status(passed, 0, "Fail") ELSE passed
        schedule == analyse /\ click = <<"hr_sched", n>>
        scheduled == IF schedule /\ ~can_mail
                     THEN set_hr_status(failed, 0, "Scheduled (session-only)") ELSE failed
    IN RunResult(
           SetKey(ss, "candidates_session", session_list_actions(scheduled, 0, click)),
           w,
           (IF analyse
            THEN {<<"hr_meet_inputs", n>>, <<"hr_pass", n>>, <<"hr_fail", n>>,
                  <<"hr_sched", n>>}
            ELSE {})
               \cup {<<"offer", i>> : i \in 0..(n - 1)}
               \cup {<<"reject", i>> : i \in 0..(n - 1)},
           IF schedule /\ can_mail
           THEN MailCall(email, TRUE, smtp, send_email_with_ics(secrets, email, TRUE, smtp))
           ELSE NoCall)

\* lines 420-436: the record gets hr_status "In Review" and is inserted at 0
hr_analysed(ss, w, click, secrets, smtp, record) ==
    hr_session(ss, w, click, secrets, smtp, TRUE, record.email,
               <<record>> \o ss.candidates_session)

\* lines 383-505: the HR dashboard
hr_dashboard(ss, w, click, secrets, smtp) ==
    IF ~(w.uploaded_file # None /\ w.selected_job # NoJob)
    THEN hr_session(ss, w, click, secrets, smtp, FALSE, "Not found", ss.candidates_session)
    ELSE IF UploadedFiles[w.uploaded_file].raised # None
    THEN \* st.error, st.stop()
         RunResult(ss, w, {}, NoCall)
    ELSE hr_analysed(ss, w, click, secrets, smtp,
                     SetKey(analysed_record(UploadedFiles[w.uploaded_file].text,
                                            w.selected_job, now_for(ss.candidates_session)),
                            "hr_status", "In Review"))

\* lines 196-199
ensure_session_keys(ss) ==
    IF "candidates_session" \in DOMAIN ss THEN ss
    ELSE SetKey(ss, "candidates_session", <<>>)

\* lines 234-237 when no button of the login page takes effect: the page is
\* drawn and the script stops; the widgets of the dashboards are not drawn
\* and lose their state
login_page(ss) ==
    RunResult(ensure_session_keys(ss), FreshWidgets,
              {<<"login_btn", 0>>, <<"reg_btn", 0>>}, NoCall)

\* Logout that deletes the keys of the login only
logout_keeps_candidates(ss) ==
    login_page([candidates_session |-> ss.candidates_session])

\* lines 243-247: every key deleted, st.experimental_rerun()
logout(ss) == login_page(<<>>)

\* line 243: the Logout button is drawn on every dashboard
with_logout_button(out) == [out EXCEPT !.rendered = @ \cup {<<"logout", 0>>}]

\* lines 239-508 for a session that holds a username
logged_in_run(ss, w, click, secrets, smtp) ==
    IF click = <<"logout", 0>>
    THEN logout(ss)
    ELSE with_logout_button(IF GetKey(ss, "role", "User") = "User"
                            THEN user_dashboard(ss, w, click, secrets, smtp)
                            ELSE hr_dashboard(ss, w, click, secrets, smtp))

\* one run of the script, after an interaction or a rerun.  form: the text
\* inputs of the login page and the value of the role radio
script(ss, w, click, form, secrets, smtp) ==
    LET ss0 == ensure_session_keys(ss) IN
    IF "username" \notin DOMAIN ss0
    THEN IF /\ click = <<"login_btn", 0>>
            /\ truthy(form.login_email) /\ truthy(form.login_pass)
         THEN \* lines 215-219: st.experimental_rerun()
              logged_in_run(SetKey(SetKey(ss0, "username", form.login_email),
                                   "role", form.role_radio_login),
                            FreshWidgets, NoClick, secrets, smtp)
         ELSE login_page(ss0)
    ELSE logged_in_run(ss0, w, click, secrets, smtp)

----------------------------------------------------------------------------
(* One browser session of the Streamlit app: every action is one           *)
(* interaction with a widget the last run drew, followed by the rerun.     *)

\* what the user types into the login and register forms
FormEmails == {"", "hr@example.com"}

FormPasswords == {"", "pw-a"}

Roles == {"User", "HR"}

NoForm == [login_email |-> "", login_pass |-> "", role_radio_login |-> "User"]

\* the secrets the app is deployed with: none, or both
UiSecrets ==
    {[EMAIL |-> None, PASSWORD |-> None],
     [EMAIL |-> "hr@example.com", PASSWORD |-> "app-password"]}

FirstRun == script(<<>>, FreshWidgets, NoClick, NoForm, [EMAIL |-> None, PASSWORD |-> None],
                   "accepts")

InitUi ==
    /\ smtp_secrets \in UiSecrets
    /\ session_state = FirstRun.session_state
    /\ widgets = FirstRun.widgets
    /\ rendered = FirstRun.rendered
    /\ ui_last = NoCall
    /\ mail_last = NoCall
    /\ MatcherIdle /\ DbIdle /\ RequestsIdle

\* the state a run of the script leaves; out is the run's result
Rerun(op, click, out) ==
    /\ Len(out.session_state.candidates_session) <= MaxRecords
    /\ session_state' = out.session_state
    /\ widgets' = out.widgets
    /\ rendered' = out.rendered
    /\ mail_last' = out.mail
    /\ ui_last' = [op |-> op, click |-> click,
                   seen |-> session_state.candidates_session,
                   logged_in |-> "username" \in DOMAIN session_state]
    /\ UNCHANGED <<smtp_secrets, matcher_vars, db_vars, requests>>

\* the rerun that follows an interaction: w is the widgets' state after it
Interact(op, w, click, form, smtp) ==
    Rerun(op, click, script(session_state, w, click, form, smtp_secrets, smtp))

Login(login_email, login_pass, role_radio_login) ==
    /\ <<"login_btn", 0>> \in rendered
    /\ Interact("Login", widgets, <<"login_btn", 0>>,
                [login_email |-> login_email, login_pass |-> login_pass,
                 role_radio_login |-> role_radio_login], "accepts")

Register(reg_email, reg_pass) ==
    /\ <<"reg_btn", 0>> \in rendered
    /\ Interact("Register", widgets, <<"reg_btn", 0>>, NoForm, "accepts")

Logout ==
    /\ <<"logout", 0>> \in rendered
    /\ Interact("Logout", widgets, <<"logout", 0>>, NoForm, "accepts")

SelectJob(display) ==
    /\ <<"logout", 0>> \in rendered
    /\ display # widgets.selected_job
    /\ Interact("SelectJob", [widgets EXCEPT !.selected_job = display], NoClick, NoForm,
                "accepts")

UploadFile(name) ==
    /\ <<"logout", 0>> \in rendered
    /\ name # widgets.uploaded_file
    /\ Interact("UploadFile", [widgets EXCEPT !.uploaded_file = name], NoClick, NoForm,
                "accepts")

ToggleSendInvite ==
    /\ <<"send_invite_user", 0>> \in rendered
    /\ Interact("ToggleSendInvite",
                [widgets EXCEPT !.send_invite_user = ~widgets.send_invite_user],
                NoClick, NoForm, "accepts")

\* a new value in a date, time, duration or link input
EditMeetingInput ==
    /\ \E key \in rendered : key[1] \in {"user_meet_inputs", "hr_meet_inputs"}
    /\ Interact("EditMeetingInput", widgets, NoClick, NoForm, "accepts")

ClickSendInvite(smtp) ==
    /\ <<"user_send_invite", 0>> \in rendered
    /\ Interact("ClickSendInvite", widgets, <<"user_send_invite", 0>>, NoForm, smtp)

ClickMarkPass(n) ==
    /\ <<"hr_pass", n>> \in rendered
    /\ Interact("ClickMarkPass", widgets, <<"hr_pass", n>>, NoForm, "accepts")

ClickMarkFail(n) ==
    /\ <<"hr_fail", n>> \in rendered
    /\ Interact("ClickMarkFail", widgets, <<"hr_fail", n>>, NoForm, "accepts")

ClickSchedule(n, smtp) ==
    /\ <<"hr_sched", n>> \in rendered
    /\ Interact("ClickSchedule", widgets, <<"hr_sched", n>>, NoForm, smtp)

ClickOffer(i) ==
    /\ <<"offer", i>> \in rendered
    /\ Interact("ClickOffer", widgets, <<"offer", i>>, NoForm, "accepts")

ClickReject(i) ==
    /\ <<"reject", i>> \in rendered
    /\ Interact("ClickReject", widgets, <<"reject", i>>, NoForm, "accepts")

NextUi ==
    \/ \E e \in FormEmails, pw \in FormPasswords, role \in Roles : Login(e, pw, role)
    \/ \E e \in FormEmails, pw \in FormPasswords : Register(e, pw)
    \/ Logout
    \/ \E display \in DOMAIN job_map \cup {NoJob} : SelectJob(display)
    \/ \E name \in DOMAIN UploadedFiles \cup {None} : UploadFile(name)
    \/ ToggleSendInvite
    \/ EditMeetingInput
    \/ \E smtp \in SmtpBehaviours : ClickSendInvite(smtp)
    \/ \E n \in 1..MaxRecords : ClickMarkPass(n)
    \/ \E n \in 1..MaxRecords : ClickMarkFail(n)
    \/ \E n \in 1..MaxRecords, smtp \in SmtpBehaviours : ClickSchedule(n, smtp)
    \/ \E i \in 0..(MaxRecords - 1) : ClickOffer(i)
    \/ \E i \in 0..(MaxRecords - 1) : ClickReject(i)

SpecUi == InitUi /\ [][NextUi]_vars

----------------------------------------------------------------------------
(* send_email_with_ics called on its own, as the two dashboards call it,  *)
(* in a session that holds a list of candidates.                          *)

\* the sessions the notifier is called in: an HR session without and with an
\* analysed candidate
MailSessions ==
    {[username |-> "hr@example.com", role |-> "HR", candidates_session |-> <<>>],
     [username |-> "hr@example.com", role |-> "HR",
      candidates_session |->
          <<SetKey(analysed_record(ContactResume, "Data Scientist", 1),
                   "hr_status", "In Review")>>]}

InitMail ==
    /\ smtp_secrets \in SecretsChoices
    /\ session_state \in MailSessions
    /\ mail_last = NoCall
    /\ widgets = <<>> /\ rendered = {} /\ ui_last = NoCall
    /\ MatcherIdle /\ DbIdle /\ RequestsIdle

\* ok = send_email_with_ics(email, subj, body, start_dt, end_dt)
CallSendEmailWithIcs(to_email, has_meeting, smtp) ==
    /\ mail_last' = MailCall(to_email, has_meeting, smtp,
                             send_email_with_ics(smtp_secrets, to_email, has_meeting, smtp))
    /\ ui_last' = [op |-> "send_email_with_ics",
                   seen |-> session_state.candidates_session]
    /\ UNCHANGED <<smtp_secrets, session_state, widgets, rendered,
                   matcher_vars, db_vars, requests>>

NextMail ==
    \E to_email \in ToEmails, has_meeting \in BOOLEAN, smtp \in SmtpBehaviours :
        CallSendEmailWithIcs(to_email, has_meeting, smtp)

SpecMail == InitMail /\ [][NextMail]_vars

\* the call had credentials and a recipient, so lines 186-190 ran
DeliveryAttempted ==
    /\ truthy(smtp_secrets.EMAIL) /\ truthy(smtp_secrets.PASSWORD)
    /\ truthy(mail_last.to_email) /\ mail_last.to_email # "Not found"

\* C15: send_email_with_ics never raises to its caller; it returns True only
\* when send_message completed, False when the SMTP session failed, and False
\* without any SMTP step when the credentials are missing or the recipient is
\* empty or "Not found"; candidates_session is the list it was before the call.
C15_NotifierNonFatal ==
    mail_last.op = "send_email_with_ics" =>
        /\ mail_last.res.raised = None
        /\ mail_last.res.returned \in BOOLEAN
        /\ mail_last.res.returned => "send_message" \in Range(mail_last.res.smtp_done)
        /\ (DeliveryAttempted /\ mail_last.smtp # "accepts") => ~mail_last.res.returned
        /\ (DeliveryAttempted /\ mail_last.smtp = "accepts") => mail_last.res.returned
        /\ ~DeliveryAttempted =>
               /\ ~mail_last.res.returned
               /\ mail_last.res.smtp_done = <<>>
        /\ session_state.candidates_session = ui_last.seen

\* the server refused the login and the call returned False
C15_Witness ==
    /\ mail_last.op = "send_email_with_ics"
    /\ DeliveryAttempted
    /\ mail_last.smtp = "refuses login"
    /\ mail_last.res.raised = None
    /\ mail_last.res.returned = FALSE
    /\ session_state.candidates_session # <<>>

----------------------------------------------------------------------------
(* The browser session: what a click leaves in candidates_session.         *)
(* ui_last.seen is the list the page showed when the widget was used.      *)

\* the status a button of the HR dashboard is labelled with
ButtonStatus(op) ==
    CASE op = "ClickMarkPass" -> "Pass"
      [] op = "ClickMarkFail" -> "Fail"
      [] op = "ClickOffer" -> "Offer"
      [] op = "ClickReject" -> "Rejected"

C20_SessionDataOnlyLoggedIn ==
    /\ "username" \notin DOMAIN session_state =>
           /\ "role" \notin DOMAIN session_state
           /\ session_state.candidates_session = <<>>
    /\ (ui_last.op # None /\ ~ui_last.logged_in) =>
           session_state.candidates_session = <<>>
    /\ ui_last.op = "Logout" => session_state = [candidates_session |-> <<>>]
    /\ ui_last.op = "Login" => session_state.candidates_session = <<>>

\* Logout in a session that held records; the login page follows
C20_Witness ==
    /\ ui_last.op = "Logout"
    /\ ui_last.seen # <<>>
    /\ "username" \notin DOMAIN session_state
    /\ session_state.candidates_session = <<>>

====
